---- MODULE Spec2Model ----
(***************************************************************************)
(* Model of smartdispatch/smartdispatch.py: the name generators, the       *)
(* Cartesian-product command generator, the folded-argument unfolder and   *)
(* the {UID} tag substitution.                                             *)
(*                                                                         *)
(* Strings are sequences of one-character strings.  Python's None is the   *)
(* empty tuple and a given integer n is the 1-tuple <<n>>.                 *)
(* Every function of the module is pure; a run of the model is one process *)
(* that loads the module, then calls one function on inputs drawn by Init. *)
(***************************************************************************)
EXTENDS Integers, Sequences, FiniteSets, TLC

VARIABLES pc, args, ret, now, default_prefix

vars == <<pc, args, ret, now, default_prefix>>

----------------------------------------------------------------------------
(* Bounds of the model *)

\* longest flattened list of values and separators an input list is cut from
MaxFlat == 5
\* largest number of raw command-line arguments given to unfold_arguments
MaxArgs == 3
\* longest command text given to generate_name_from_command
MaxCmdLen == 3
\* longest flattened list the segments given to generate_name_from_arguments
\* are cut from
MaxNameFlat == 4
\* latest clock reading of the process
MaxClock == 2

----------------------------------------------------------------------------
(* Python built-ins used by the module *)

None == <<>>
Some(n) == <<n>>

Min(a, b) == IF a <= b THEN a ELSE b
Max(a, b) == IF a >= b THEN a ELSE b

SeqsUpTo(S, n) == UNION {[1..k -> S] : k \in 0..n}

\* s[start:] with Python's slice semantics; start is None or <<integer>>
SliceFrom(s, start) ==
  IF start = None THEN s
  ELSE LET k == start[1]
           b == IF k < 0 THEN Max(Len(s) + k, 0) ELSE Min(k, Len(s))
       IN SubSeq(s, b + 1, Len(s))

\* s[lo:hi] with 0-based non-negative bounds
Slice(s, lo, hi) == SubSeq(s, lo + 1, hi)

RECURSIVE Concat(_)
\* "".join(parts)
Concat(parts) ==
  IF parts = <<>> THEN <<>> ELSE Head(parts) \o Concat(Tail(parts))

RECURSIVE JoinWith(_, _)
\* sep.join(parts)
JoinWith(sep, parts) ==
  IF parts = <<>> THEN <<>>
  ELSE IF Len(parts) = 1 THEN parts[1]
  ELSE parts[1] \o sep \o JoinWith(sep, Tail(parts))

RECURSIVE SplitOn(_, _)
\* the list of the pieces of a flat sequence between occurrences of sep
SplitOn(flat, sep) ==
  IF \A i \in 1..Len(flat) : flat[i] # sep THEN <<flat>>
  ELSE LET i == CHOOSE j \in 1..Len(flat) :
                  flat[j] = sep /\ \A k \in 1..(j - 1) : flat[k] # sep
       IN <<SubSeq(flat, 1, i - 1)>> \o SplitOn(SubSeq(flat, i + 1, Len(flat)), sep)

----------------------------------------------------------------------------
(* Module load *)

Digit(n) == <<"0", "1", "2", "3", "4", "5", "6", "7", "8", "9">>[n + 1]

\* datetime.strftime('%Y-%m-%d_%H-%M-%S_') of a clock reading: the reading's
\* seconds field followed by the trailing underscore of the format
strftime(t) == <<Digit(t % 10), "_">>

\* the state once the module is imported at clock reading 0: the default of
\* generate_name_from_arguments' prefix parameter is evaluated by the def
ModuleLoaded ==
  /\ pc = "loaded"
  /\ ret = None
  /\ now = 0
  /\ default_prefix = strftime(now)

----------------------------------------------------------------------------
(* get_commands_from_arguments *)

\* [x + [y] for y in pool] for one partial tuple x
ExtendTuple(x, pool) == [j \in 1..Len(pool) |-> Append(x, pool[j])]

RECURSIVE FirstFastestStep(_, _)
FirstFastestStep(result, pool) ==
  IF pool = <<>> THEN <<>>
  ELSE [i \in 1..Len(result) |-> Append(result[i], Head(pool))]
       \o FirstFastestStep(result, Tail(pool))

RECURSIVE ProductStep(_, _)
\* one pool of itertools.product: result = [x+[y] for x in result for y in pool]
ProductStep(result, pool) ==
  IF result = <<>> THEN <<>>
  ELSE ExtendTuple(Head(result), pool) \o ProductStep(Tail(result), pool)

RECURSIVE ProductUpTo(_, _)
ProductUpTo(pools, k) ==
  IF k = 0 THEN << <<>> >>
  ELSE ProductStep(ProductUpTo(pools, k - 1), pools[k])

\* itertools.product(*arguments)
product(pools) == ProductUpTo(pools, Len(pools))

get_commands_from_arguments(arguments) ==
  LET tuples == product(arguments)
  IN [i \in 1..Len(tuples) |-> Concat(tuples[i])]

\* values a segment holds, and the separator that cuts a flat list into segments
SEP == <<"|">>
Values == {<<"a">>, <<"b", "c">>, <<>>}
SegmentLists ==
  {<<>>} \cup {SplitOn(f, SEP) : f \in SeqsUpTo(Values \cup {SEP}, MaxFlat)}

InitCommands ==
  /\ pc = "loaded"
  /\ args \in {[fn |-> "get_commands_from_arguments", arguments |-> a] :
                 a \in SegmentLists}
  /\ ModuleLoaded

CallGetCommands ==
  /\ pc = "loaded"
  /\ args.fn = "get_commands_from_arguments"
  /\ ret' = get_commands_from_arguments(args.arguments)
  /\ pc' = "returned"
  /\ UNCHANGED <<args, now, default_prefix>>

NextCommands == CallGetCommands

SpecCommands == InitCommands /\ [][NextCommands]_vars

RECURSIVE NumCombos(_, _)
\* the product of the value counts of segments k..Len(segs)
NumCombos(segs, k) ==
  IF k > Len(segs) THEN 1 ELSE Len(segs[k]) * NumCombos(segs, k + 1)

\* the index into segment k of the i-th (0-based) tuple, last segment fastest
IndexAt(segs, i, k) == (i \div NumCombos(segs, k + 1)) % Len(segs[k])

\* C1: get_commands_from_arguments returns as many commands as the product of
\* the segments' value counts, and the i-th command is the separator-free
\* concatenation of one value per segment, in segment order, for the i-th index
\* tuple in lexicographic order with the last segment's index varying fastest.
C1_ProductOrder ==
  (pc = "returned" /\ args.fn = "get_commands_from_arguments") =>
    LET segs == args.arguments
    IN /\ Len(ret) = NumCombos(segs, 1)
       /\ \A i \in 1..Len(ret) :
            ret[i] = Concat([k \in 1..Len(segs) |->
                               segs[k][IndexAt(segs, i - 1, k) + 1]])

\* a call on two segments of two distinct values each has returned four commands
C1_Witness ==
  /\ pc = "returned"
  /\ args.fn = "get_commands_from_arguments"
  /\ Len(args.arguments) = 2
  /\ Len(args.arguments[1]) = 2
  /\ Len(args.arguments[2]) = 2
  /\ args.arguments[1][1] # args.arguments[1][2]
  /\ args.arguments[2][1] # args.arguments[2][2]
  /\ Len(ret) = 4

----------------------------------------------------------------------------
(* replace_uid_tag *)

UID_TAG == <<"{", "U", "I", "D", "}">>

\* ord(c) of the characters command texts are made of
Chars ==
  {"{", "}", "U", "I", "D", "a", "b", "x", " ", "[", "]", ":", "\\",
   "0", "1", "2"}

\* ord(c)
Ord(c) ==
  CASE c = "{" -> 123 [] c = "}" -> 125 [] c = "U" -> 85 [] c = "I" -> 73
    [] c = "D" -> 68 [] c = "a" -> 97 [] c = "b" -> 98 [] c = "x" -> 120
    [] c = " " -> 32 [] c = "[" -> 91 [] c = "]" -> 93 [] c = ":" -> 58
    [] c = "\\" -> 92 [] c = "0" -> 48 [] c = "1" -> 49 [] c = "2" -> 50
    [] OTHER -> 63

\* chr(n) for the code of a character of Chars
Chr(n) == CHOOSE c \in Chars : Ord(c) = n

HexDigits ==
  <<"0", "1", "2", "3", "4", "5", "6", "7",
    "8", "9", "a", "b", "c", "d", "e", "f">>

HexDigit(n) == HexDigits[n + 1]

HexValue(c) == (CHOOSE i \in 1..16 : HexDigits[i] = c) - 1

RECURSIVE Digest(_, _)
\* a one-byte rolling digest of the text, standing for the hash of the text
Digest(s, h) ==
  IF s = <<>> THEN h ELSE Digest(Tail(s), (h * 31 + Ord(Head(s))) % 256)

\* utils.generate_uid_from_string: the lowercase hexadecimal digest of the text
generate_uid_from_string(s) ==
  LET h == Digest(s, 7) IN <<HexDigit(h \div 16), HexDigit(h % 16)>>

StartsWith(s, old) == Len(s) >= Len(old) /\ SubSeq(s, 1, Len(old)) = old

RECURSIVE Replace(_, _, _)
\* s.replace(old, new) for a non-empty old: every non-overlapping occurrence,
\* found scanning from the left
Replace(s, old, new) ==
  IF s = <<>> THEN <<>>
  ELSE IF StartsWith(s, old)
       THEN new \o Replace(SubSeq(s, Len(old) + 1, Len(s)), old, new)
       ELSE <<Head(s)>> \o Replace(Tail(s), old, new)

RECURSIVE ReplaceFirst(_, _, _)
\* s.replace(old, new, 1)
ReplaceFirst(s, old, new) ==
  IF s = <<>> THEN <<>>
  ELSE IF StartsWith(s, old)
       THEN new \o SubSeq(s, Len(old) + 1, Len(s))
       ELSE <<Head(s)>> \o ReplaceFirst(Tail(s), old, new)

replace_uid_tag_first_only(commands) ==
  [i \in 1..Len(commands) |->
     ReplaceFirst(commands[i], UID_TAG, generate_uid_from_string(commands[i]))]

replace_uid_tag_shared_uid(commands) ==
  [i \in 1..Len(commands) |->
     Replace(commands[i], UID_TAG, generate_uid_from_string(commands[1]))]

replace_uid_tag(commands) ==
  [i \in 1..Len(commands) |->
     Replace(commands[i], UID_TAG, generate_uid_from_string(commands[i]))]

\* pieces command texts are put together from
CommandParts == {UID_TAG, <<"a">>, <<"{", "U", "I">>, <<"D", "}">>}
CommandLists ==
  {<<>>} \cup
  {LET cut == SplitOn(f, SEP) IN [i \in 1..Len(cut) |-> Concat(cut[i])] :
     f \in SeqsUpTo(CommandParts \cup {SEP}, MaxFlat)}

InitUid ==
  /\ pc = "loaded"
  /\ args \in {[fn |-> "replace_uid_tag", commands |-> c] : c \in CommandLists}
  /\ ModuleLoaded

CallReplaceUid ==
  /\ pc = "loaded"
  /\ args.fn = "replace_uid_tag"
  /\ ret' = replace_uid_tag(args.commands)
  /\ pc' = "returned"
  /\ UNCHANGED <<args, now, default_prefix>>

\* the caller hands the returned list to replace_uid_tag a second time
CallReplaceUidAgain ==
  /\ pc = "returned"
  /\ args.fn = "replace_uid_tag"
  /\ ret' = [first |-> ret, second |-> replace_uid_tag(ret)]
  /\ pc' = "returned_twice"
  /\ UNCHANGED <<args, now, default_prefix>>

NextUid == CallReplaceUid \/ CallReplaceUidAgain

SpecUid == InitUid /\ [][NextUid]_vars

\* the positions of s where an occurrence of the tag starts
TagStarts(s) ==
  {p \in 1..Len(s) : p + Len(UID_TAG) - 1 <= Len(s)
                     /\ SubSeq(s, p, p + Len(UID_TAG) - 1) = UID_TAG}

HasTag(s) == TagStarts(s) # {}

\* s with the text at every tag occurrence exchanged for uid, position by position
Substituted(s, uid) ==
  Concat([p \in 1..Len(s) |->
            IF p \in TagStarts(s) THEN uid
            ELSE IF \E q \in TagStarts(s) : q < p /\ p < q + Len(UID_TAG)
                 THEN <<>>
                 ELSE <<s[p]>>])

\* C2: replace_uid_tag returns a list of the same length and order in which
\* output[i] is input[i] with every occurrence of {UID} replaced by the UID of
\* the full original text of input[i], and output[i] = input[i] when input[i]
\* does not contain the tag.
C2_EveryTagReplaced ==
  (pc = "returned" /\ args.fn = "replace_uid_tag") =>
    /\ Len(ret) = Len(args.commands)
    /\ \A i \in 1..Len(ret) :
         LET c == args.commands[i]
         IN /\ ret[i] = Substituted(c, generate_uid_from_string(c))
            /\ ~HasTag(c) => ret[i] = c

\* a list of a command holding the tag once and a command holding it twice has
\* been processed
C2_Witness ==
  /\ pc = "returned"
  /\ args.fn = "replace_uid_tag"
  /\ Len(args.commands) = 2
  /\ Cardinality(TagStarts(args.commands[1])) = 1
  /\ Cardinality(TagStarts(args.commands[2])) = 2
  /\ ret[1] # args.commands[1]

\* C3: replace_uid_tag is idempotent: the second pass returns the list the
\* first pass returned, and no command of the first pass's output contains {UID}.
C3_Idempotent ==
  (pc = "returned_twice" /\ args.fn = "replace_uid_tag") =>
    /\ ret.second = ret.first
    /\ \A i \in 1..Len(ret.first) : ~HasTag(ret.first[i])

\* two passes have run over a command in which a tag sits inside the pieces of
\* another tag
C3_Witness ==
  /\ pc = "returned_twice"
  /\ args.fn = "replace_uid_tag"
  /\ \E i \in 1..Len(args.commands) :
       /\ args.commands[i] = <<"{", "U", "I">> \o UID_TAG \o <<"D", "}">>
       /\ ret.first[i] # args.commands[i]

----------------------------------------------------------------------------
(* generate_name_from_command, generate_name_from_arguments *)

\* characters utils.slugify keeps
SafeChars == {"a", "b", "c", "d", "_", "-", "0", "1", "2", "3"}

RECURSIVE slugify(_)
\* utils.slugify: the text without the characters that are unsafe in a file name
slugify(value) ==
  IF value = <<>> THEN <<>>
  ELSE IF Head(value) \in SafeChars
       THEN <<Head(value)>> \o slugify(Tail(value))
       ELSE slugify(Tail(value))

RECURSIVE SplitWhitespace(_)
\* command.split(): the maximal runs of non-space characters
SplitWhitespace(s) ==
  IF s = <<>> THEN <<>>
  ELSE IF Head(s) = " " THEN SplitWhitespace(Tail(s))
  ELSE LET stops == {i \in 1..Len(s) : s[i] = " "}
           e == IF stops = {} THEN Len(s) + 1
                ELSE CHOOSE i \in stops : \A j \in stops : i <= j
       IN <<SubSeq(s, 1, e - 1)>> \o SplitWhitespace(SubSeq(s, e, Len(s)))

\* command.split(' ')
SplitSingleSpace(s) == SplitOn(s, " ")

NormalizeLengthUnchanged(n) == n

\* if n is not None: n = min(-n, n)
NormalizeLength(n) == IF n = None THEN None ELSE Some(Min(-n[1], n[1]))

ArgLabelFirstOnly(argvalues, max_length_arg) ==
  SliceFrom(slugify(argvalues[1]), max_length_arg)

\* the entry appended to name for one argument: lines 76-79, with
\* max_length_arg already normalized
ArgLabel(argvalues, max_length_arg) ==
  LET slugs == [i \in 1..Len(argvalues) |-> slugify(argvalues[i])]
      first == SliceFrom(slugs[1], max_length_arg)
  IN IF Len(slugs) > 1
     THEN first \o <<"-">> \o SliceFrom(slugs[Len(slugs)], max_length_arg)
     ELSE first

generate_name_from_command_single_space(command, max_length_arg, max_length) ==
  LET mla == NormalizeLength(max_length_arg)
      ml == NormalizeLength(max_length)
      tokens == SplitSingleSpace(command)
      name == JoinWith(<<"_">>,
                [i \in 1..Len(tokens) |-> SliceFrom(slugify(tokens[i]), mla)])
  IN [status |-> "ok", value |-> SliceFrom(name, ml)]

generate_name_from_command(command, max_length_arg, max_length) ==
  LET mla == NormalizeLength(max_length_arg)
      ml == NormalizeLength(max_length)
      tokens == SplitWhitespace(command)
      name == JoinWith(<<"_">>,
                [i \in 1..Len(tokens) |-> SliceFrom(slugify(tokens[i]), mla)])
  IN [status |-> "ok", value |-> SliceFrom(name, ml)]

generate_name_trim_after_prefix(arguments, max_length_arg, max_length, prefix) ==
  LET mla == NormalizeLength(max_length_arg)
      ml == NormalizeLength(max_length)
  IN IF \E k \in 1..Len(arguments) : arguments[k] = <<>>
     THEN [status |-> "IndexError", value |-> None]
     ELSE LET name == JoinWith(<<"_">>,
                        [k \in 1..Len(arguments) |-> ArgLabel(arguments[k], mla)])
          IN [status |-> "ok", value |-> SliceFrom(prefix \o name, ml)]

\* prefix is the value bound to the parameter: the caller's, or the default
generate_name_from_arguments(arguments, max_length_arg, max_length, prefix) ==
  LET mla == NormalizeLength(max_length_arg)
      ml == NormalizeLength(max_length)
  IN IF \E k \in 1..Len(arguments) : arguments[k] = <<>>
     THEN \* argvalues[0] of an empty list
          [status |-> "IndexError", value |-> None]
     ELSE LET name == JoinWith(<<"_">>,
                        [k \in 1..Len(arguments) |-> ArgLabel(arguments[k], mla)])
          IN [status |-> "ok", value |-> prefix \o SliceFrom(name, ml)]

Omitted == <<"omitted">>
\* the value bound to prefix by a call: the default is the object the def made
BoundPrefix(given) == IF given = Omitted THEN default_prefix ELSE given

Lengths == {None, Some(-2), Some(0), Some(2)}
CommandTexts == SeqsUpTo({"a", "b", " ", "!"}, MaxCmdLen)
NameValues == {<<"a", "b", "c">>, <<"d", "!", "1">>, <<>>}
NameSegmentLists ==
  {<<>>} \cup {SplitOn(f, SEP) : f \in SeqsUpTo(NameValues \cup {SEP}, MaxNameFlat)}
Prefixes == {Omitted, <<"p", "_">>}

InitName ==
  /\ ModuleLoaded
  /\ args \in
       {[fn |-> "generate_name_from_command", command |-> c,
         max_length_arg |-> a, max_length |-> m] :
          c \in CommandTexts, a \in Lengths, m \in Lengths}
       \cup
       {[fn |-> "generate_name_from_arguments", arguments |-> s,
         max_length_arg |-> a, max_length |-> m, prefix |-> p] :
          s \in NameSegmentLists, a \in Lengths, m \in Lengths, p \in Prefixes}

\* the clock advances between the import and a call
Tick ==
  /\ pc = "loaded"
  /\ now < MaxClock
  /\ now' = now + 1
  /\ UNCHANGED <<pc, args, ret, default_prefix>>

CallNameFromCommand ==
  /\ pc = "loaded"
  /\ args.fn = "generate_name_from_command"
  /\ ret' = generate_name_from_command(args.command, args.max_length_arg,
                                       args.max_length)
  /\ pc' = "returned"
  /\ UNCHANGED <<args, now, default_prefix>>

CallNameFromArguments ==
  /\ pc = "loaded"
  /\ args.fn = "generate_name_from_arguments"
  /\ ret' = generate_name_from_arguments(args.arguments, args.max_length_arg,
                                         args.max_length, BoundPrefix(args.prefix))
  /\ pc' = "returned"
  /\ UNCHANGED <<args, now, default_prefix>>

\* the process goes on to make the same call again later
CallAgainLater ==
  /\ pc = "returned"
  /\ now < MaxClock
  /\ pc' = "loaded"
  /\ ret' = None
  /\ UNCHANGED <<args, now, default_prefix>>

NextName ==
  Tick \/ CallNameFromCommand \/ CallNameFromArguments \/ CallAgainLater

SpecName == InitName /\ [][NextName]_vars

Abs(n) == IF n < 0 THEN -n ELSE n

\* the last n characters of s, all of s when it is shorter
TrailingChars(s, n) == SubSeq(s, Len(s) - Min(n, Len(s)) + 1, Len(s))
\* the first n characters of s, all of s when it is shorter
LeadingChars(s, n) == SubSeq(s, 1, Min(n, Len(s)))

\* trimming by the sign of the length: trailing for positive, leading for negative
TrimBySign(s, length) ==
  IF length = None THEN s
  ELSE IF length[1] > 0 THEN TrailingChars(s, length[1])
  ELSE LeadingChars(s, -length[1])

\* trimming to the trailing |length| characters whatever the sign
TrimTrailing(s, length) ==
  IF length = None THEN s ELSE TrailingChars(s, Abs(length[1]))

\* trimming to the trailing |length| characters, a length of 0 trimming nothing
TrimTrailingOrAll(s, length) ==
  IF length = None \/ length = Some(0) THEN s ELSE TrimTrailing(s, length)

NameFromCommandCalled == pc = "returned" /\ args.fn = "generate_name_from_command"
NameFromArgumentsCalled ==
  pc = "returned" /\ args.fn = "generate_name_from_arguments"

\* C5: a call of generate_name_from_arguments that omits the prefix prepends
\* the prefix computed from the clock reading of that call.
C5_PrefixAtCallTime ==
  (NameFromArgumentsCalled /\ args.prefix = Omitted /\ ret.status = "ok") =>
    StartsWith(ret.value, strftime(now))

\* the label of one segment, each value trimmed by the rule Trim(_, _)
SegmentLabel(values, Trim(_, _), length) ==
  IF Len(values) > 1
  THEN Trim(slugify(values[1]), length) \o <<"-">>
       \o Trim(slugify(values[Len(values)]), length)
  ELSE Trim(slugify(values[1]), length)

\* the labels of all segments joined by underscores
JoinedLabels(segs, Trim(_, _), length) ==
  JoinWith(<<"_">>, [k \in 1..Len(segs) |-> SegmentLabel(segs[k], Trim, length)])

\* the name the two generators return when they trim by the rule Trim(_, _)
NameTrimmedBy(Trim(_, _)) ==
  /\ NameFromCommandCalled =>
       LET tokens == SplitWhitespace(args.command)
       IN ret.value =
            Trim(JoinWith(<<"_">>,
                   [i \in 1..Len(tokens) |->
                      Trim(slugify(tokens[i]), args.max_length_arg)]),
                 args.max_length)
  /\ (NameFromArgumentsCalled /\ ret.status = "ok") =>
       ret.value = BoundPrefix(args.prefix)
                   \o Trim(JoinedLabels(args.arguments, Trim, args.max_length_arg),
                           args.max_length)

NonZeroLengths ==
  args.max_length_arg # Some(0) /\ args.max_length # Some(0)

\* C6 as stated: a positive length keeps the trailing characters, a negative
\* length keeps the leading characters, an absent length trims nothing.
C6_TrimFollowsSign == NonZeroLengths => NameTrimmedBy(TrimBySign)

\* C6: the trimming rule of both name generators keeps the trailing |n|
\* characters of the token (or of the joined name, before any prefix) for a
\* positive and for a negative length n alike, and trims nothing when the
\* length is absent.
C6_TrimKeepsTrailing == NonZeroLengths => NameTrimmedBy(TrimTrailing)

\* generate_name_from_command has trimmed, with a negative length, a token whose
\* leading and trailing characters differ
C6_Witness ==
  /\ NameFromCommandCalled
  /\ args.max_length_arg = Some(-2)
  /\ args.max_length = None
  /\ Len(SplitWhitespace(args.command)) = 1
  /\ LET token == slugify(SplitWhitespace(args.command)[1])
     IN /\ LeadingChars(token, 2) # TrailingChars(token, 2)
        /\ ret.value = TrailingChars(token, 2)

\* C7 as stated: the trim is applied to the string that already carries the
\* prefix, so the returned name is never longer than |max_length| characters.
C7_TrimAfterPrefix ==
  (NameFromArgumentsCalled /\ ret.status = "ok"
     /\ args.max_length # None /\ args.max_length # Some(0)) =>
    /\ ret.value =
         TrimTrailingOrAll(
           BoundPrefix(args.prefix)
           \o JoinedLabels(args.arguments, TrimTrailingOrAll, args.max_length_arg),
           args.max_length)
    /\ Len(ret.value) <= Abs(args.max_length[1])

\* C7: generate_name_from_arguments returns the prefix followed by the joined
\* name trimmed to max_length: the trim (trailing |max_length| characters, a
\* max_length of 0 trimming nothing) is applied to the joined name before the
\* prefix is prepended, so for a nonzero max_length the returned name is never
\* longer than len(prefix) + |max_length| characters.
C7_TrimBeforePrefix ==
  (NameFromArgumentsCalled /\ ret.status = "ok" /\ args.max_length # None) =>
    LET prefix == BoundPrefix(args.prefix)
    IN /\ ret.value =
            prefix \o TrimTrailingOrAll(
                        JoinedLabels(args.arguments, TrimTrailingOrAll,
                                     args.max_length_arg),
                        args.max_length)
       /\ args.max_length # Some(0) =>
            Len(ret.value) <= Len(prefix) + Abs(args.max_length[1])

\* a name longer than max_length has been trimmed and given to the caller
\* behind an untrimmed prefix
C7_Witness ==
  /\ NameFromArgumentsCalled
  /\ ret.status = "ok"
  /\ args.max_length = Some(2)
  /\ args.prefix # Omitted
  /\ Len(JoinedLabels(args.arguments, TrimTrailingOrAll, args.max_length_arg)) > 2
  /\ Len(ret.value) = Len(args.prefix) + 2

\* the segments that hold more than one value
RECURSIVE MultiValued(_)
MultiValued(segs) ==
  IF segs = <<>> THEN <<>>
  ELSE IF Len(Head(segs)) > 1 THEN <<Head(segs)>> \o MultiValued(Tail(segs))
  ELSE MultiValued(Tail(segs))

\* C8 as stated: only the segments of more than one value contribute a label.
C8_LabelPerFoldedOnly ==
  (NameFromArgumentsCalled /\ ret.status = "ok" /\ args.max_length = None) =>
    ret.value = BoundPrefix(args.prefix)
                \o JoinedLabels(MultiValued(args.arguments), TrimTrailingOrAll,
                                args.max_length_arg)

\* C8: generate_name_from_arguments builds one label per segment, Literal
\* (single-value) segments included: the label is the slugified, trimmed first
\* value, followed by a dash and the slugified, trimmed last value when the
\* segment has more than one value; the labels are joined by underscores.
C8_LabelPerSegment ==
  (NameFromArgumentsCalled /\ ret.status = "ok" /\ args.max_length = None) =>
    ret.value = BoundPrefix(args.prefix)
                \o JoinedLabels(args.arguments, TrimTrailingOrAll,
                                args.max_length_arg)

\* a name has been built from a single-value segment and a segment of several
\* different values
C8_Witness ==
  /\ NameFromArgumentsCalled
  /\ ret.status = "ok"
  /\ args.max_length = None
  /\ Len(args.arguments) = 2
  /\ Len(args.arguments[1]) = 1
  /\ args.arguments[1][1] # <<>>
  /\ Len(args.arguments[2]) = 2
  /\ args.arguments[2][1] # args.arguments[2][2]

\* the input of the call is empty: no segment, or no token
EmptyInput ==
  \/ /\ NameFromArgumentsCalled
     /\ args.arguments = <<>>
  \/ /\ NameFromCommandCalled
     /\ \A i \in 1..Len(args.command) : args.command[i] = " "

----------------------------------------------------------------------------
(* unfold_arguments *)

Digits == {"0", "1", "2", "3", "4", "5", "6", "7", "8", "9"}
HexChars == {HexDigits[i] : i \in 1..16}

\* the character at 0-based index i, "" past the end of the text
At(text, i) == IF 0 <= i /\ i < Len(text) THEN text[i + 1] ELSE ""

RECURSIVE escape(_)
\* utils.escape: a backslash and the character it escapes become \xHH, the
\* character's code in hexadecimal
escape(text) ==
  IF text = <<>> THEN <<>>
  ELSE IF Head(text) = "\\" /\ Len(text) >= 2
       THEN <<"\\", "x", HexDigit(Ord(text[2]) \div 16), HexDigit(Ord(text[2]) % 16)>>
            \o escape(SubSeq(text, 3, Len(text)))
       ELSE <<Head(text)>> \o escape(Tail(text))

RECURSIVE hex2str(_)
\* utils.hex2str: the inverse of escape, every \xHH back to the escaped character
hex2str(text) ==
  IF text = <<>> THEN <<>>
  ELSE IF /\ Len(text) >= 4
          /\ text[1] = "\\" /\ text[2] = "x"
          /\ text[3] \in HexChars /\ text[4] \in HexChars
       THEN <<"\\", Chr(16 * HexValue(text[3]) + HexValue(text[4]))>>
            \o hex2str(SubSeq(text, 5, Len(text)))
       ELSE <<Head(text)>> \o hex2str(Tail(text))

NoMatch == -1

RECURSIVE DigitRunEnd(_, _)
\* the index after the run of digits that starts at index i
DigitRunEnd(text, i) ==
  IF At(text, i) \in Digits THEN DigitRunEnd(text, i + 1) ELSE i

\* RangeFoldedArgument.regex tried at index s: the index after "[start:end]" or
\* "[start:end:step]", or NoMatch
RangeMatchEnd(text, s) ==
  IF At(text, s) # "[" THEN NoMatch
  ELSE LET a == DigitRunEnd(text, s + 1)
       IN IF a = s + 1 \/ At(text, a) # ":" THEN NoMatch
          ELSE LET b == DigitRunEnd(text, a + 1)
               IN IF b = a + 1 THEN NoMatch
                  ELSE IF At(text, b) = "]" THEN b + 1
                  ELSE IF At(text, b) # ":" THEN NoMatch
                  ELSE LET c == DigitRunEnd(text, b + 1)
                       IN IF c > b + 1 /\ At(text, c) = "]" THEN c + 1
                          ELSE NoMatch

RECURSIVE FirstBracket(_, _)
\* the first index from i on that holds a bracket, Len(text) when none does
FirstBracket(text, i) ==
  IF i >= Len(text) \/ At(text, i) \in {"[", "]"} THEN i
  ELSE FirstBracket(text, i + 1)

\* EnumerationFoldedArgument.regex tried at index s: the index after
\* "[item1 ... itemN]", or NoMatch
EnumerationMatchEnd(text, s) ==
  IF At(text, s) # "[" THEN NoMatch
  ELSE LET j == FirstBracket(text, s + 1)
       IN IF At(text, j) = "]" THEN j + 1 ELSE NoMatch

NoGroups == [range |-> None, enumeration |-> None]

MatchAtBothGroups(text, s) ==
  LET r == RangeMatchEnd(text, s)
      e == EnumerationMatchEnd(text, s)
  IN IF r # NoMatch
     THEN [start |-> s, end |-> r,
           groupdict |-> [range |-> Some(Slice(text, s, r)),
                          enumeration |->
                            IF e # NoMatch THEN Some(Slice(text, s, e)) ELSE None]]
     ELSE IF e # NoMatch
     THEN [start |-> s, end |-> e,
           groupdict |-> [range |-> None, enumeration |-> Some(Slice(text, s, e))]]
     ELSE [start |-> s, end |-> NoMatch, groupdict |-> NoGroups]

\* the master regex "((?P<range>...)|(?P<enumeration>...))" tried at index s:
\* the alternatives in the order of the arguments list, the first that matches
\* fills its named group and the other group stays None
MatchAt(text, s) ==
  LET r == RangeMatchEnd(text, s)
      e == EnumerationMatchEnd(text, s)
  IN IF r # NoMatch
     THEN [start |-> s, end |-> r,
           groupdict |-> [range |-> Some(Slice(text, s, r)), enumeration |-> None]]
     ELSE IF e # NoMatch
     THEN [start |-> s, end |-> e,
           groupdict |-> [range |-> None, enumeration |-> Some(Slice(text, s, e))]]
     ELSE [start |-> s, end |-> NoMatch, groupdict |-> NoGroups]

RECURSIVE finditer(_, _)
\* re.finditer(regex, text) from index s on: the leftmost match, then the
\* matches of the text after it
finditer(text, s) ==
  IF s >= Len(text) THEN <<>>
  ELSE LET m == MatchAt(text, s)
       IN IF m.end # NoMatch THEN <<m>> \o finditer(text, m.end)
          ELSE finditer(text, s + 1)

RECURSIVE ParseInt(_)
ParseInt(digits) ==
  IF digits = <<>> THEN 0
  ELSE 10 * ParseInt(SubSeq(digits, 1, Len(digits) - 1))
       + HexValue(digits[Len(digits)])

RECURSIVE ToStr(_)
\* str(n) of a natural number
ToStr(n) == IF n < 10 THEN <<Digit(n)>> ELSE ToStr(n \div 10) \o <<Digit(n % 10)>>

\* RangeFoldedArgument.unfold: start, start + step, ... up to end inclusive
RangeUnfold(group) ==
  LET fields == SplitOn(SubSeq(group, 2, Len(group) - 1), ":")
      start == ParseInt(fields[1])
      end == ParseInt(fields[2])
      step == IF Len(fields) = 3 THEN ParseInt(fields[3]) ELSE 1
  IN IF step = 0 THEN [status |-> "MalformedFoldArgument", values |-> <<>>]
     ELSE LET n == IF end < start THEN 0 ELSE (end - start) \div step + 1
          IN [status |-> "ok",
              values |-> [i \in 1..n |-> ToStr(start + (i - 1) * step)]]

\* EnumerationFoldedArgument.unfold: the whitespace-separated items
EnumerationUnfold(group) ==
  LET items == SplitWhitespace(SubSeq(group, 2, Len(group) - 1))
  IN IF items = <<>> THEN [status |-> "EmptyEnumeration", values |-> <<>>]
     ELSE [status |-> "ok", values |-> items]

\* an entry appended to unfolded_arguments, with the span of text it stands for
Literal(text, lo, hi) ==
  [kind |-> "Literal", variant |-> "", lo |-> lo, hi |-> hi,
   status |-> "ok", values |-> <<Slice(text, lo, hi)>>]

Folded(variant, m, unfolded) ==
  [kind |-> "Folded", variant |-> variant, lo |-> m.start, hi |-> m.end,
   status |-> unfolded.status, values |-> unfolded.values]

\* for argument in arguments: if groupdict[argument.name] is not None: append
UnfoldMatch(m) ==
  (IF m.groupdict.range # None
   THEN <<Folded("range", m, RangeUnfold(m.groupdict.range[1]))>> ELSE <<>>)
  \o
  (IF m.groupdict.enumeration # None
   THEN <<Folded("enumeration", m, EnumerationUnfold(m.groupdict.enumeration[1]))>>
   ELSE <<>>)

PosSkipsSeparator(m) == m.end + 1

\* pos = match.end()
PosAfter(m) == m.end

RECURSIVE UnfoldLoop(_, _, _)
\* the loop over the matches and the append of the remaining text after it
UnfoldLoop(text, matches, pos) ==
  IF matches = <<>> THEN <<Literal(text, pos, Len(text))>>
  ELSE LET m == Head(matches)
       IN <<Literal(text, pos, m.start)>> \o UnfoldMatch(m)
          \o UnfoldLoop(text, Tail(matches), PosAfter(m))

\* value is the list returned; text and spans keep the escaped text and the
\* span of each entry of value for the statements about them
unfold_arguments(arguments) ==
  LET text == escape(JoinWith(<<" ">>, arguments))
      entries == UnfoldLoop(text, finditer(text, 0), 0)
      failed == {k \in 1..Len(entries) : entries[k].status # "ok"}
  IN IF failed # {}
     THEN [status |-> entries[CHOOSE k \in failed : \A j \in failed : k <= j].status,
           value |-> None, text |-> text, spans |-> <<>>]
     ELSE [status |-> "ok",
           value |-> [k \in 1..Len(entries) |->
                        [i \in 1..Len(entries[k].values) |->
                           hex2str(entries[k].values[i])]],
           text |-> text,
           spans |-> [k \in 1..Len(entries) |->
                        [kind |-> entries[k].kind, variant |-> entries[k].variant,
                         lo |-> entries[k].lo, hi |-> entries[k].hi]]]

\* raw command-line arguments
RawArguments ==
  {<<"[", "1", ":", "2", "]">>, <<"[", "a">>, <<"b", "]">>, <<"x">>,
   <<"\\", "[">>, <<"[", "]">>, <<"[", "2", ":", "1", ":", "0", "]">>,
   <<"[", "a", " ", "b", "]">>, <<"\\", "x">>}

InitUnfold ==
  /\ ModuleLoaded
  /\ args \in {[fn |-> "unfold_arguments", arguments |-> a] :
                 a \in SeqsUpTo(RawArguments, MaxArgs)}

CallUnfold ==
  /\ pc = "loaded"
  /\ args.fn = "unfold_arguments"
  /\ ret' = unfold_arguments(args.arguments)
  /\ pc' = "returned"
  /\ UNCHANGED <<args, now, default_prefix>>

NextUnfold == CallUnfold

SpecUnfold == InitUnfold /\ [][NextUnfold]_vars

UnfoldReturned ==
  pc = "returned" /\ args.fn = "unfold_arguments" /\ ret.status = "ok"

SpanText(k) == Slice(ret.text, ret.spans[k].lo, ret.spans[k].hi)

\* C4: the spans of the emitted segments are in text order, without gaps or
\* overlaps, their concatenation is the escaped text, and unescaping that
\* concatenation gives back the space-joined raw argument list.
C4_SpansCoverText ==
  UnfoldReturned =>
    LET n == Len(ret.spans)
        whole == Concat([k \in 1..n |-> SpanText(k)])
    IN /\ n = Len(ret.value)
       /\ ret.spans[1].lo = 0
       /\ ret.spans[n].hi = Len(ret.text)
       /\ \A k \in 1..n : ret.spans[k].lo <= ret.spans[k].hi
       /\ \A k \in 1..(n - 1) : ret.spans[k].hi = ret.spans[k + 1].lo
       /\ \A k \in 1..n : ret.spans[k].kind = "Literal" =>
                            ret.value[k] = <<hex2str(SpanText(k))>>
       /\ whole = ret.text
       /\ hex2str(whole) = JoinWith(<<" ">>, args.arguments)

\* a text with an escaped character, a folded argument and text on both sides
\* of it has been unfolded
C4_Witness ==
  /\ UnfoldReturned
  /\ Len(ret.spans) = 3
  /\ ret.spans[1].lo < ret.spans[1].hi
  /\ ret.spans[3].lo < ret.spans[3].hi
  /\ ret.text # JoinWith(<<" ">>, args.arguments)

\* C10: with n matches of the grammar in the escaped text, unfold_arguments
\* returns 2n+1 segments alternating Literal, Folded, ..., Literal: a
\* single-value Literal before every match, one Folded segment of one variant
\* per match, and a trailing Literal even when no text remains.
C10_AlternatingSegments ==
  UnfoldReturned =>
    LET matches == finditer(ret.text, 0)
        n == Len(matches)
    IN /\ Len(ret.value) = 2 * n + 1
       /\ Len(ret.spans) = 2 * n + 1
       /\ \A k \in 1..(2 * n + 1) :
            IF k % 2 = 1
            THEN ret.spans[k].kind = "Literal" /\ Len(ret.value[k]) = 1
            ELSE /\ ret.spans[k].kind = "Folded"
                 /\ ret.spans[k].variant \in {"range", "enumeration"}
                 /\ ret.spans[k].lo = matches[k \div 2].start
                 /\ ret.spans[k].hi = matches[k \div 2].end

\* a text of a range and an enumeration with nothing before, text between and
\* nothing after has been unfolded into five segments
C10_Witness ==
  /\ UnfoldReturned
  /\ Len(ret.value) = 5
  /\ ret.value[1] = << <<>> >>
  /\ ret.value[5] = << <<>> >>
  /\ ret.value[3] # << <<>> >>
  /\ ret.spans[2].variant = "range"
  /\ ret.spans[4].variant = "enumeration"

====
